---- MODULE Spec2Model ----
(***************************************************************************)
(* webdial: net.Conn over HTTP.  A model of the push-stream (SSE + POST)   *)
(* session protocol, the server's session registry and accept queue, the   *)
(* message-socket connection wrapper and the client's dial logic.          *)
(*                                                                         *)
(* Session identifiers: generateSessionID draws 8 random bytes; the model  *)
(* identifies a session with the index of the stream-open request that     *)
(* created it, i.e. identifiers of different requests are distinct.        *)
(***************************************************************************)
EXTENDS Integers, Sequences, FiniteSets, TLC

\* ------------------------------------------------------------------ bounds

\* Push-stream sessions the server is given: concurrent dials.
MaxSess == 2
\* Write calls per direction on one push-stream connection.
MaxWrites == 1
\* Heartbeat ticks per session.
MaxPing == 1
\* Largest Read buffer handed to Read.
MaxBuf == 2

Slots == 1..MaxSess

\* Sessions opened in the specifications that follow a single session.
MaxOpen == 1

Opened == 1..MaxOpen

\* Capacity of acceptCh: make(chan net.Conn, 16).
AcceptQueueCap == 16

\* ----------------------------------------------------------------- helpers

Min(a, b) == IF a < b THEN a ELSE b

\* Take that hands over more than the buffer holds.
TakeAll(s, n) == s

Take(s, n) == SubSeq(s, 1, Min(n, Len(s)))

\* Drop that forgets what the reader did not take.
DropAll(s, n) == << >>

Drop(s, n) == SubSeq(s, Min(n, Len(s)) + 1, Len(s))

IsPrefix(s, t) == Len(s) <= Len(t) /\ SubSeq(t, 1, Len(s)) = s

\* --------------------------------------------------- base64.RawStdEncoding
\* Bytes are 0..255; text is a sequence of character codes.

\* The standard alphabet: A-Z a-z 0-9 + /
B64Char(v) ==
    IF v < 26 THEN 65 + v
    ELSE IF v < 52 THEN 97 + (v - 26)
    ELSE IF v < 62 THEN 48 + (v - 52)
    ELSE IF v = 62 THEN 43 ELSE 47

\* The 6-bit value of a character, -1 for a character outside the alphabet.
B64Val(c) ==
    IF c >= 65 /\ c <= 90 THEN c - 65
    ELSE IF c >= 97 /\ c <= 122 THEN c - 97 + 26
    ELSE IF c >= 48 /\ c <= 57 THEN c - 48 + 52
    ELSE IF c = 43 THEN 62
    ELSE IF c = 47 THEN 63 ELSE -1

RECURSIVE EncodeToString(_)
\* base64.RawStdEncoding.EncodeToString: 3 bytes -> 4 characters, a
\* remainder of 1 byte -> 2 characters, of 2 bytes -> 3, no padding.
EncodeToString(b) ==
    IF Len(b) = 0 THEN << >>
    ELSE IF Len(b) = 1 THEN
        << B64Char(b[1] \div 4), B64Char((b[1] % 4) * 16) >>
    ELSE IF Len(b) = 2 THEN
        << B64Char(b[1] \div 4),
           B64Char((b[1] % 4) * 16 + b[2] \div 16),
           B64Char((b[2] % 16) * 4) >>
    ELSE
        << B64Char(b[1] \div 4),
           B64Char((b[1] % 4) * 16 + b[2] \div 16),
           B64Char((b[2] % 16) * 4 + b[3] \div 64),
           B64Char(b[3] % 64) >> \o EncodeToString(SubSeq(b, 4, Len(b)))

\* Whether DecodeString accepts the text: alphabet only, length % 4 # 1.
B64Valid(t) ==
    /\ Len(t) % 4 # 1
    /\ \A k \in 1..Len(t) : B64Val(t[k]) >= 0

RECURSIVE DecodeString(_)
\* base64.RawStdEncoding.DecodeString of an accepted text.
DecodeString(t) ==
    IF Len(t) < 2 THEN << >>
    ELSE IF Len(t) = 2 THEN
        << B64Val(t[1]) * 4 + B64Val(t[2]) \div 16 >>
    ELSE IF Len(t) = 3 THEN
        << B64Val(t[1]) * 4 + B64Val(t[2]) \div 16,
           (B64Val(t[2]) % 16) * 16 + B64Val(t[3]) \div 4 >>
    ELSE
        << B64Val(t[1]) * 4 + B64Val(t[2]) \div 16,
           (B64Val(t[2]) % 16) * 16 + B64Val(t[3]) \div 4,
           (B64Val(t[3]) % 4) * 64 + B64Val(t[4]) >>
        \o DecodeString(SubSeq(t, 5, Len(t)))

\* ------------------------------------------------------------------- state

VARIABLES
    \* Server (part_003:20-25)
    sClosed,      \* s.closed has been closed
    acceptCh,     \* s.acceptCh: the queued connections, oldest first
    sessions,     \* s.sessions: the registered session identifiers
    srvPc,        \* Server.Close: "idle", "range", "rclose", "delete", "done"
    rangeCur,     \* the key sessions.Range is visiting (0: none)
    rangeStart,   \* the keys present when Range began
    \* Server.Accept callers
    accepted,     \* connections Accept has returned
    \* Server.handleSSE, one per stream-open request
    hPc,          \* "none","stored","enq","hclose","loop","defer","done"
    ctxDone,      \* r.Context() is done (the client went away)
    pings,        \* heartbeat ticks taken
    \* sseServerConn (conn_sse.go:111-122)
    closedBy,     \* closed flag: "none", or the caller whose Swap set it
    closeCh,      \* number of close(c.closeCh) executed
    out,          \* events written to c.w while the handler runs
    late,         \* events written to c.w after the handler returned
    pRerr,        \* io.Pipe: the read half was closed (readPipe.Close)
    pWerr,        \* io.Pipe: the write half was closed (pw.Close)
    \* the application holding an accepted sseServerConn
    saPc,         \* "idle", "write" (Write past its closed check), "close"
    swBuf,        \* the buffer of the Write in progress
    sWrites,      \* Write calls made
    sSent,        \* bytes of the Writes that returned len(b), nil
    sRecv,        \* bytes the Reads returned
    \* dialSSE and sseClientConn (conn_sse.go:17-29)
    cPc,          \* "none","dialing","conn","failed"
    cClosed,      \* closed flag
    cPos,         \* events the decoder has consumed from the stream
    readBuf,      \* c.readBuf
    cwPc,         \* Write: "idle", "lock" (past the closed check), "post"
    cwBuf,        \* the buffer of the Write in progress
    ccPc,         \* Close: "idle", "lock", "post", "done"
    crErr,        \* a Read returned an error other than io.EOF
    cWrites,      \* Write calls made
    cSent,        \* bytes of the Writes that returned len(b), nil
    cRecv,        \* bytes the Reads returned
    closePosts,   \* close=1 uploads sent
    \* Server.handlePost serving the connection's upload in flight
    post,         \* [pc, kind, rem, status, perr, late]
    \* Server.ServeHTTP serving a request of any other HTTP client
    req,          \* the request: its headers, query, route and status
    nReq,         \* requests sent
    \* wsConn (conn_ws.go:12-18) and the socket under it
    wsDone,       \* number of close(c.done) executed
    wsSock,       \* number of c.ws.Close() calls on the socket
    wsCloseRes,   \* results of the Close calls, in call order
    wsIn,         \* inbound messages not yet fetched by NextReader
    wsReader,     \* c.reader: the rest of the current frame, or "nil"
    wsRecv,       \* bytes the Reads returned
    wsFed,        \* all inbound messages, in arrival order
    wsOut,        \* messages sent by Write
    wsSending,    \* buffers of the Write calls inside c.ws.WriteMessage
    wsPanic,      \* WriteMessage found another write in progress
    wsReadErr,    \* the error a Read returned: "nil", "next" or "frame"
    \* Dial (webdial_test.go:314-321) and dial (client.mjs, :75-85)
    dPc,          \* "init", "ws", "sse", "done"
    dLang,        \* "go" or "js"
    dUrl,         \* baseURL as given
    dOpt,         \* opts.transport: "", "ws" or "sse"
    dWsOk,        \* the message-socket handshake would succeed
    dSseOk,       \* the push-stream handshake would succeed
    dBase,        \* baseURL after normalisation
    dTried,       \* the attempts made, in order: [transport, base]
    dRes          \* "none", "ws", "sse", "error"

srvVars == << sClosed, acceptCh, sessions, srvPc, rangeCur, rangeStart >>
accVars == << accepted >>
hVars == << hPc, ctxDone, pings >>
connVars == << closedBy, closeCh, out, late, pRerr, pWerr >>
appVars == << saPc, swBuf, sWrites, sSent, sRecv >>
cliVars == << cPc, cClosed, cPos, readBuf, cwPc, cwBuf, ccPc, crErr,
              cWrites, cSent, cRecv, closePosts >>
reqVars == << req, nReq >>
sseVars == << srvVars, accVars, hVars, connVars, appVars, cliVars, post,
             reqVars >>
wsVars == << wsDone, wsSock, wsCloseRes, wsIn, wsReader, wsRecv, wsFed,
             wsOut, wsSending, wsPanic, wsReadErr >>
dialVars == << dPc, dLang, dUrl, dOpt, dWsOk, dSseOk, dBase, dTried, dRes >>
vars == << sseVars, wsVars, dialVars >>

\* What the push-stream actions leave alone.
others == << wsVars, dialVars, reqVars >>

NoReq == [pc |-> "none", upgrade |-> FALSE, wsOk |-> FALSE, method |-> "GET",
          accept |-> << >>, path |-> "/", sid |-> 0, close |-> FALSE,
          readOk |-> TRUE, route |-> "none", status |-> 0,
          wsClosed |-> FALSE]

NoPost == [pc |-> "none", kind |-> "none", rem |-> << >>, status |-> 0,
           perr |-> "nil", late |-> FALSE]

\* NewServer (part_003:27-32) with no session, and the accept queue holding
\* the connections q.
InitQueued(q) ==
    /\ sClosed = FALSE
    /\ acceptCh = q
    /\ sessions = {}
    /\ srvPc = "idle"
    /\ rangeCur = 0
    /\ rangeStart = {}
    /\ accepted = {}
    /\ hPc = [i \in Slots |-> "none"]
    /\ ctxDone = [i \in Slots |-> FALSE]
    /\ pings = [i \in Slots |-> 0]
    /\ closedBy = [i \in Slots |-> "none"]
    /\ closeCh = [i \in Slots |-> 0]
    /\ out = [i \in Slots |-> << >>]
    /\ late = [i \in Slots |-> << >>]
    /\ pRerr = [i \in Slots |-> FALSE]
    /\ pWerr = [i \in Slots |-> FALSE]
    /\ saPc = [i \in Slots |-> "idle"]
    /\ swBuf = [i \in Slots |-> << >>]
    /\ sWrites = [i \in Slots |-> 0]
    /\ sSent = [i \in Slots |-> << >>]
    /\ sRecv = [i \in Slots |-> << >>]
    /\ cPc = [i \in Slots |-> "none"]
    /\ cClosed = [i \in Slots |-> FALSE]
    /\ cPos = [i \in Slots |-> 0]
    /\ readBuf = [i \in Slots |-> << >>]
    /\ cwPc = [i \in Slots |-> "idle"]
    /\ cwBuf = [i \in Slots |-> << >>]
    /\ ccPc = [i \in Slots |-> "idle"]
    /\ crErr = [i \in Slots |-> FALSE]
    /\ cWrites = [i \in Slots |-> 0]
    /\ cSent = [i \in Slots |-> << >>]
    /\ cRecv = [i \in Slots |-> << >>]
    /\ closePosts = [i \in Slots |-> 0]
    /\ post = [i \in Slots |-> NoPost]
    /\ req = NoReq
    /\ nReq = 0

InitSSE == InitQueued(<< >>)

\* ------------------------------------------- sseServerConn and its io.Pipe

connClosed(i) == closedBy[i] # "none"

\* The handler has returned: the response it wrote to is finished.
handlerReturned(i) == hPc[i] = "done"

\* eventsource.WriteEvent(c.w, ev): the event goes out on the response while
\* the handler runs.
WriteEvent(i, ev) ==
    /\ out' = IF handlerReturned(i) THEN out
              ELSE [out EXCEPT ![i] = Append(@, ev)]
    /\ late' = IF handlerReturned(i) THEN [late EXCEPT ![i] = Append(@, ev)]
               ELSE late

Event(t, d) == [type |-> t, data |-> d]

\* sseServerConn.Close up to its Swap (conn_sse.go:155-157), for the call
\* that finds the flag unset.
CloseSwap(i, who) ==
    /\ ~connClosed(i)
    /\ closedBy' = [closedBy EXCEPT ![i] = who]

\* sseServerConn.Close, the rest (conn_sse.go:158-162).
CloseRest(i) ==
    /\ WriteEvent(i, Event("close", << >>))
    /\ pRerr' = [pRerr EXCEPT ![i] = TRUE]
    /\ closeCh' = [closeCh EXCEPT ![i] = @ + 1]

\* io.Pipe: done is closed by the first close of either half.
pipeDone(i) == pRerr[i] \/ pWerr[i]

\* pipe.readCloseError: the writer's error (EOF) only when the read half
\* was not closed itself.
readCloseError(i) == IF ~pRerr[i] /\ pWerr[i] THEN "EOF" ELSE "ErrClosedPipe"

\* ------------------------------------------------------- Server.handleSSE

\* dialSSE sends GET with Accept: text/event-stream (webdial_test.go:336-342);
\* ServeHTTP hands it to handleSSE, which creates and registers the session
\* (part_003:86-97).
handleSSE_Register(i) ==
    /\ hPc[i] = "none"
    /\ cPc' = [cPc EXCEPT ![i] = "dialing"]
    /\ sessions' = sessions \cup {i}
    /\ hPc' = [hPc EXCEPT ![i] = "stored"]
    /\ UNCHANGED << sClosed, acceptCh, srvPc, rangeCur, rangeStart, accVars,
                    ctxDone, pings, connVars, appVars, post, cClosed, cPos,
                    readBuf, cwPc, cwBuf, ccPc, crErr, cWrites, cSent, cRecv,
                    closePosts, wsVars, dialVars >>

handleSSE_Store(i) == handleSSE_Register(i) /\ UNCHANGED reqVars

\* part_003:102-107: the sid event, written without the connection's writeMu.
handleSSE_Sid(i) ==
    /\ hPc[i] = "stored"
    /\ WriteEvent(i, Event("sid", << i >>))
    /\ hPc' = [hPc EXCEPT ![i] = "enq"]
    /\ UNCHANGED << srvVars, accVars, ctxDone, pings, closedBy, closeCh,
                    pRerr, pWerr, appVars, cliVars, post, others >>

\* part_003:108-109: select, case s.acceptCh <- conn.
handleSSE_Enqueue(i) ==
    /\ hPc[i] = "enq"
    /\ Len(acceptCh) < AcceptQueueCap
    /\ acceptCh' = Append(acceptCh, i)
    /\ hPc' = [hPc EXCEPT ![i] = "loop"]
    /\ UNCHANGED << sClosed, sessions, srvPc, rangeCur, rangeStart, accVars,
                    ctxDone, pings, connVars, appVars, cliVars, post,
                    others >>

\* A closed signal that the select at the enqueue never receives.
enqClosedNever == FALSE

\* part_003:80, :110: the case <-s.closed of the select at the enqueue is
\* ready.
enqClosedReady == sClosed

\* part_003:110-112: select, case <-s.closed: conn.Close() and return.
handleSSE_EnqClosed(i) ==
    /\ hPc[i] = "enq"
    /\ enqClosedReady
    /\ \/ /\ CloseSwap(i, "hdl")
          /\ hPc' = [hPc EXCEPT ![i] = "hclose"]
       \/ /\ connClosed(i)
          /\ hPc' = [hPc EXCEPT ![i] = "defer"]
          /\ UNCHANGED closedBy
    /\ UNCHANGED << srvVars, accVars, ctxDone, pings, closeCh, out, late,
                    pRerr, pWerr, appVars, cliVars, post, others >>

handleSSE_EnqCloseRest(i) ==
    /\ hPc[i] = "hclose"
    /\ CloseRest(i)
    /\ hPc' = [hPc EXCEPT ![i] = "defer"]
    /\ UNCHANGED << srvVars, accVars, ctxDone, pings, closedBy, pWerr,
                    appVars, cliVars, post, others >>

\* sseServerConn.writeHeartbeat (conn_sse.go:145-152): whether it gets to
\* write the ping event.
writeHeartbeatOk(i) == ~connClosed(i)

\* part_003:118-121: a tick of the handler's ticker.
handleSSE_Tick(i) ==
    /\ hPc[i] = "loop"
    /\ pings[i] < MaxPing
    /\ pings' = [pings EXCEPT ![i] = @ + 1]
    /\ \/ /\ writeHeartbeatOk(i)
          /\ WriteEvent(i, Event("ping", << >>))
          /\ UNCHANGED hPc
       \/ \* closed, or the write to a client that went away fails
          /\ ~writeHeartbeatOk(i) \/ ctxDone[i]
          /\ hPc' = [hPc EXCEPT ![i] = "defer"]
          /\ UNCHANGED << out, late >>
    /\ UNCHANGED << srvVars, accVars, ctxDone, closedBy, closeCh, pRerr,
                    pWerr, appVars, cliVars, post, others >>

\* part_003:122-127: the three cases that end the loop.
loopExit(i) == ctxDone[i] \/ closeCh[i] > 0 \/ sClosed

handleSSE_LoopExit(i) ==
    /\ hPc[i] = "loop"
    /\ loopExit(i)
    /\ hPc' = [hPc EXCEPT ![i] = "defer"]
    /\ UNCHANGED << srvVars, accVars, ctxDone, pings, connVars, appVars,
                    cliVars, post, others >>

\* part_003:98-101, the deferred function: s.sessions.Delete(sid), then
\* pw.Close(); the handler returns and the response ends.
handleSSE_Defer(i) ==
    /\ hPc[i] = "defer"
    /\ sessions' = sessions \ {i}
    /\ pWerr' = [pWerr EXCEPT ![i] = TRUE]
    /\ hPc' = [hPc EXCEPT ![i] = "done"]
    /\ UNCHANGED << sClosed, acceptCh, srvPc, rangeCur, rangeStart, accVars,
                    ctxDone, pings, closedBy, closeCh, out, late, pRerr,
                    appVars, cliVars, post, others >>

\* The request context ends: the client disconnected or the network failed.
ctxCancel(i) ==
    /\ hPc[i] \notin {"none", "done"}
    /\ ~ctxDone[i]
    /\ ctxDone' = [ctxDone EXCEPT ![i] = TRUE]
    /\ UNCHANGED << srvVars, accVars, hPc, pings, connVars, appVars, cliVars,
                    post, others >>

\* --------------------------------------------- Server.Close, Server.Accept

\* part_003:60-61: the first call closes s.closed and starts the Range.
ServerClose_Begin ==
    /\ srvPc = "idle"
    /\ sClosed' = TRUE
    /\ srvPc' = "range"
    /\ rangeStart' = sessions
    /\ UNCHANGED << acceptCh, sessions, rangeCur, accVars, hVars, connVars,
                    appVars, cliVars, post, others >>

\* part_003:62-64: Range reaches a key that is in the map: sess.conn.Close().
\* A key stored after the Range began may be visited or not.
ServerClose_Visit(k) ==
    /\ srvPc = "range"
    /\ k \in sessions
    /\ rangeCur' = k
    /\ \/ /\ CloseSwap(k, "srv")
          /\ srvPc' = "rclose"
       \/ /\ connClosed(k)
          /\ srvPc' = "delete"
          /\ UNCHANGED closedBy
    /\ UNCHANGED << sClosed, acceptCh, sessions, rangeStart, accVars, hVars,
                    closeCh, out, late, pRerr, pWerr, appVars, cliVars, post,
                    others >>

ServerClose_CloseRest ==
    /\ srvPc = "rclose"
    /\ CloseRest(rangeCur)
    /\ srvPc' = "delete"
    /\ UNCHANGED << sClosed, acceptCh, sessions, rangeCur, rangeStart,
                    accVars, hVars, closedBy, pWerr, appVars, cliVars, post,
                    others >>

\* part_003:65: s.sessions.Delete(key).
ServerClose_Delete ==
    /\ srvPc = "delete"
    /\ sessions' = sessions \ {rangeCur}
    /\ rangeCur' = 0
    /\ srvPc' = "range"
    /\ UNCHANGED << sClosed, acceptCh, rangeStart, accVars, hVars, connVars,
                    appVars, cliVars, post, others >>

\* Range ends once every key that was in the map throughout has been visited.
ServerClose_End ==
    /\ srvPc = "range"
    /\ rangeStart \cap sessions = {}
    /\ srvPc' = "done"
    /\ UNCHANGED << sClosed, acceptCh, sessions, rangeCur, rangeStart,
                    accVars, hVars, connVars, appVars, cliVars, post,
                    others >>

\* part_003:50-57: the cases of Accept's select that are ready.
AcceptReady == { c \in {"conn", "closed"} :
                    \/ c = "conn" /\ acceptCh # << >>
                    \/ c = "closed" /\ sClosed }

Accept ==
    \E c \in AcceptReady :
        /\ IF c = "conn"
           THEN /\ acceptCh' = Tail(acceptCh)
                /\ accepted' = accepted \cup {Head(acceptCh)}
           ELSE \* "webdial: server closed"
                UNCHANGED << acceptCh, accepted >>
        /\ UNCHANGED << sClosed, sessions, srvPc, rangeCur, rangeStart, hVars,
                        connVars, appVars, cliVars, post, others >>

\* ---------------------------------------------------------- sseClientConn

\* webdial_test.go:350-361: the first event must be sid.
dialSSE_First(i) ==
    /\ cPc[i] = "dialing"
    /\ \/ /\ Len(out[i]) > 0
          /\ IF out[i][1].type = "sid"
             THEN /\ cPc' = [cPc EXCEPT ![i] = "conn"]
                  /\ cPos' = [cPos EXCEPT ![i] = 1]
                  /\ UNCHANGED ctxDone
             ELSE \* resp.Body.Close(): the request context ends
                  /\ cPc' = [cPc EXCEPT ![i] = "failed"]
                  /\ ctxDone' = [ctxDone EXCEPT ![i] = TRUE]
                  /\ UNCHANGED cPos
       \/ /\ Len(out[i]) = 0
          /\ handlerReturned(i)
          /\ cPc' = [cPc EXCEPT ![i] = "failed"]
          /\ UNCHANGED << cPos, ctxDone >>
    /\ UNCHANGED << srvVars, accVars, hPc, pings, connVars, appVars, post,
                    cClosed, readBuf, cwPc, cwBuf, ccPc, crErr, cWrites,
                    cSent, cRecv, closePosts, others >>

\* A client that takes every stream for the first session's.
sessionIDFirst(i) == 1

\* webdial_test.go:358-359: the identifier the client keeps is the data of
\* the sid event that opened its stream; its uploads carry it
\* (conn_sse.go:75, :98).
sessionID(i) == out[i][1].data[1]

\* A stream whose end the decoder never reports.
streamNeverEnds(i) == FALSE

\* c.decoder.Decode (conn_sse.go:52-54) at the end of the response, all
\* events consumed: it returns io.EOF, which Read passes on.
streamEnded(i) == cPos[i] = Len(out[i]) /\ handlerReturned(i)

\* Read on connection i returns 0, io.EOF (conn_sse.go:48-54, :62-64).
cReadEOF(i) ==
    /\ cPc[i] = "conn"
    /\ Len(readBuf[i]) = 0
    /\ cClosed[i] \/ streamEnded(i)

\* readEvent without the base64 decoding of a d event.
readEventRaw(ev) ==
    IF ev.type = "d" THEN [buf |-> ev.data, res |-> "loop"]
    ELSE IF ev.type = "close" THEN [buf |-> << >>, res |-> "EOF"]
    ELSE [buf |-> << >>, res |-> "loop"]

\* One event of the stream as sseClientConn.Read's loop handles it
\* (conn_sse.go:55-65): what is put into readBuf, and how the loop goes on.
readEvent(ev) ==
    IF ev.type = "d"
    THEN IF B64Valid(ev.data)
         THEN [buf |-> DecodeString(ev.data), res |-> "loop"]
         ELSE [buf |-> << >>, res |-> "err"]
    ELSE IF ev.type = "close"
    THEN [buf |-> << >>, res |-> "EOF"]
    ELSE [buf |-> << >>, res |-> "loop"]

\* sseClientConn.Read(b) with len(b) = n (conn_sse.go:43-67), one pass of
\* its loop per step.
cRead(i, n) ==
    /\ cPc[i] = "conn"
    /\ \/ \* c.readBuf.Read(b)
          /\ Len(readBuf[i]) > 0
          /\ cRecv' = [cRecv EXCEPT ![i] = @ \o Take(readBuf[i], n)]
          /\ readBuf' = [readBuf EXCEPT ![i] = Drop(@, n)]
          /\ UNCHANGED << cClosed, cPos, crErr >>
       \/ /\ Len(readBuf[i]) = 0
          /\ cClosed[i]
          /\ UNCHANGED << cClosed, cPos, readBuf, cRecv, crErr >>
       \/ \* c.decoder.Decode(&ev) returns the next event
          /\ Len(readBuf[i]) = 0
          /\ ~cClosed[i]
          /\ cPos[i] < Len(out[i])
          /\ LET r == readEvent(out[i][cPos[i] + 1])
             IN /\ cPos' = [cPos EXCEPT ![i] = @ + 1]
                /\ readBuf' = [readBuf EXCEPT ![i] = r.buf]
                /\ cClosed' = [cClosed EXCEPT ![i] = (r.res = "EOF")]
                /\ crErr' = [crErr EXCEPT ![i] = @ \/ r.res = "err"]
          /\ UNCHANGED cRecv
       \/ \* the stream ended: Decode returns io.EOF
          /\ Len(readBuf[i]) = 0
          /\ ~cClosed[i]
          /\ streamEnded(i)
          /\ UNCHANGED << cClosed, cPos, readBuf, cRecv, crErr >>
    /\ UNCHANGED << srvVars, accVars, hVars, connVars, appVars, post, cPc,
                    cwPc, cwBuf, ccPc, cWrites, cSent, closePosts, others >>

\* writeMu of the sseClientConn is held from an upload's start to its end.
cMuFree(i) == cwPc[i] # "post" /\ ccPc[i] # "post"

\* The upload request as it leaves the client; late: a Close of the
\* connection has already returned on one side.
NewPost(i, kind, body) ==
    [pc |-> "load", kind |-> kind, rem |-> body, status |-> 0,
     perr |-> "nil", late |-> closeCh[i] > 0 \/ ccPc[i] = "done"]

\* sseClientConn.Write, conn_sse.go:70-72.
cWrite_Call(i, p) ==
    /\ cPc[i] = "conn"
    /\ cwPc[i] = "idle"
    /\ cWrites' = [cWrites EXCEPT ![i] = @ + 1]
    /\ IF cClosed[i]
       THEN UNCHANGED << cwPc, cwBuf >>
       ELSE /\ cwPc' = [cwPc EXCEPT ![i] = "lock"]
            /\ cwBuf' = [cwBuf EXCEPT ![i] = p]
    /\ UNCHANGED << srvVars, accVars, hVars, connVars, appVars, post, cPc,
                    cClosed, cPos, readBuf, ccPc, crErr, cSent, cRecv,
                    closePosts, others >>

\* conn_sse.go:73-81: the upload is sent under writeMu.
cWrite_Post(i) ==
    /\ cwPc[i] = "lock"
    /\ cMuFree(i)
    /\ post[sessionID(i)].pc = "none"
    /\ cwPc' = [cwPc EXCEPT ![i] = "post"]
    /\ post' = [post EXCEPT ![sessionID(i)] = NewPost(i, "data", cwBuf[i])]
    /\ UNCHANGED << srvVars, accVars, hVars, connVars, appVars, cPc, cClosed,
                    cPos, readBuf, cwBuf, ccPc, crErr, cWrites, cSent, cRecv,
                    closePosts, others >>

\* conn_sse.go:85-89: the result of Write from the response's status.
writeResult(status) == IF status # 204 THEN "err" ELSE "ok"

cWrite_Resp(i) ==
    /\ cwPc[i] = "post"
    /\ post[sessionID(i)].pc = "resp"
    /\ cSent' = [cSent EXCEPT ![i] =
                    IF writeResult(post[sessionID(i)].status) = "ok"
                    THEN @ \o cwBuf[i] ELSE @]
    /\ cwPc' = [cwPc EXCEPT ![i] = "idle"]
    /\ cwBuf' = [cwBuf EXCEPT ![i] = << >>]
    /\ post' = [post EXCEPT ![sessionID(i)] = NoPost]
    /\ UNCHANGED << srvVars, accVars, hVars, connVars, appVars, cPc, cClosed,
                    cPos, readBuf, ccPc, crErr, cWrites, cRecv, closePosts,
                    others >>

\* sseClientConn.Close, conn_sse.go:93-95: only the first call goes on.
cClose_Call(i) ==
    /\ cPc[i] = "conn"
    /\ IF cClosed[i]
       THEN UNCHANGED << cClosed, ccPc >>
       ELSE /\ cClosed' = [cClosed EXCEPT ![i] = TRUE]
            /\ ccPc' = [ccPc EXCEPT ![i] = "lock"]
    /\ UNCHANGED << srvVars, accVars, hVars, connVars, appVars, post, cPc,
                    cPos, readBuf, cwPc, cwBuf, crErr, cWrites, cSent, cRecv,
                    closePosts, others >>

\* conn_sse.go:96-100: the close=1 upload, under writeMu.
cClose_Post(i) ==
    /\ ccPc[i] = "lock"
    /\ cMuFree(i)
    /\ post[sessionID(i)].pc = "none"
    /\ ccPc' = [ccPc EXCEPT ![i] = "post"]
    /\ post' = [post EXCEPT ![sessionID(i)] = NewPost(i, "close", << >>)]
    /\ closePosts' = [closePosts EXCEPT ![i] = @ + 1]
    /\ UNCHANGED << srvVars, accVars, hVars, connVars, appVars, cPc, cClosed,
                    cPos, readBuf, cwPc, cwBuf, crErr, cWrites, cSent, cRecv,
                    others >>

\* conn_sse.go:101-105: whatever the answer, c.sseResp.Body.Close().
cClose_Resp(i) ==
    /\ ccPc[i] = "post"
    /\ post[sessionID(i)].pc = "resp"
    /\ ccPc' = [ccPc EXCEPT ![i] = "done"]
    /\ post' = [post EXCEPT ![sessionID(i)] = NoPost]
    /\ ctxDone' = [ctxDone EXCEPT ![i] = TRUE]
    /\ UNCHANGED << srvVars, accVars, hPc, pings, connVars, appVars, cPc,
                    cClosed, cPos, readBuf, cwPc, cwBuf, crErr, cWrites,
                    cSent, cRecv, closePosts, others >>

\* ------------------------------------------------------ Server.handlePost

\* part_003:154-155: the status answered after writePipe.Write(body), whose
\* error perr is dropped.
uploadStatus(perr) == 204

\* part_003:138-142: the status when the lookup of the identifier fails.
lookupStatus(found) == IF found THEN 0 ELSE 404

\* part_003:133-149: the session is looked up by its identifier.
handlePost_Load(i) ==
    /\ post[i].pc = "load"
    /\ IF lookupStatus(i \in sessions) # 0
       THEN /\ post' = [post EXCEPT ![i].pc = "resp",
                            ![i].status = lookupStatus(i \in sessions)]
            /\ UNCHANGED closedBy
       ELSE IF post[i].kind = "close"
       THEN \* part_003:144-147: sess.conn.Close()
            \/ /\ CloseSwap(i, "post")
               /\ post' = [post EXCEPT ![i].pc = "pclose"]
            \/ /\ connClosed(i)
               /\ post' = [post EXCEPT ![i].pc = "resp", ![i].status = 204]
               /\ UNCHANGED closedBy
       ELSE /\ post' = [post EXCEPT ![i].pc = "pipe"]
            /\ UNCHANGED closedBy
    /\ UNCHANGED << srvVars, accVars, hVars, closeCh, out, late, pRerr, pWerr,
                    appVars, cliVars, others >>

handlePost_CloseRest(i) ==
    /\ post[i].pc = "pclose"
    /\ CloseRest(i)
    /\ post' = [post EXCEPT ![i].pc = "resp", ![i].status = 204]
    /\ UNCHANGED << srvVars, accVars, hVars, closedBy, pWerr, appVars,
                    cliVars, others >>

\* part_003:154: sess.conn.writePipe.Write(body) on a pipe that is closed,
\* or gets closed while the write waits for a reader: io.ErrClosedPipe.
handlePost_PipeClosed(i) ==
    /\ post[i].pc = "pipe"
    /\ pipeDone(i)
    /\ post' = [post EXCEPT ![i].pc = "resp", ![i].perr = "ErrClosedPipe",
                            ![i].status = uploadStatus("ErrClosedPipe")]
    /\ UNCHANGED << srvVars, accVars, hVars, connVars, appVars, cliVars,
                    others >>

\* ------------------------------------------------------- Server.ServeHTTP

\* Requests sent to the server by other HTTP clients.
MaxReq == 3

\* The message-socket connections in the accept queue are not told apart.
WsConn == 0

\* The body of an upload.
ReqBody == << 7 >>

Methods == {"GET", "POST", "PUT"}
AcceptHeaders == { << >>, << "text/event-stream" >>,
                   << "text/html", "text/event-stream" >> }
Paths == {"/", "/sse", "/post"}

\* The requests: the upgrade handshake can be well-formed only with an
\* Upgrade header, and close=1 and a failing body matter to uploads only.
Requests ==
    { r \in { [NoReq EXCEPT !.pc = "sent", !.upgrade = u, !.wsOk = w,
                            !.method = m, !.accept = a, !.path = p,
                            !.sid = sd, !.close = c, !.readOk = ro] :
                  u \in BOOLEAN, w \in BOOLEAN, m \in Methods,
                  a \in AcceptHeaders, p \in Paths, sd \in 0..MaxSess,
                  c \in BOOLEAN, ro \in BOOLEAN } :
        /\ r.wsOk => r.upgrade
        /\ (r.close \/ ~r.readOk) => r.method = "POST" }

\* strings.Contains(r.Header.Get("Accept"), "text/event-stream").
acceptsEventStream(r) ==
    \E k \in 1..Len(r.accept) : r.accept[k] = "text/event-stream"

\* Routing by the request's path, as a mux with fixed routes would.
DispatchByPath(r) ==
    IF r.path = "/sse" /\ r.method = "GET" THEN "sse"
    ELSE IF r.path = "/post" /\ r.method = "POST" THEN "post"
    ELSE IF r.upgrade THEN "ws" ELSE "400"

\* Server.ServeHTTP (part_003:34-48): the handler a request goes to.
Dispatch(r) ==
    IF r.upgrade THEN "ws"
    ELSE IF r.method = "POST" THEN "post"
    ELSE IF r.method = "GET" /\ acceptsEventStream(r) THEN "sse"
    ELSE "400"

\* The request answered with a status.
Answer(st) ==
    [req EXCEPT !.pc = "done", !.route = Dispatch(req), !.status = st]

\* Another client sends a request; a stream-open request stands for one of
\* the sessions of the model.
Request_Send(r) ==
    /\ req.pc \in {"none", "done"}
    /\ Dispatch(r) = "sse" => \E i \in Opened : hPc[i] = "none"
    /\ req' = r
    /\ nReq' = nReq + 1
    /\ UNCHANGED << srvVars, accVars, hVars, connVars, appVars, cliVars, post,
                    wsVars, dialVars >>

\* part_003:47: http.Error(w, ..., http.StatusBadRequest).
ServeHTTP_Bad ==
    /\ req.pc = "sent"
    /\ Dispatch(req) = "400"
    /\ req' = Answer(400)
    /\ UNCHANGED << srvVars, accVars, hVars, connVars, appVars, cliVars, post,
                    nReq, wsVars, dialVars >>

\* upgrader.Upgrade (part_003:73-76): the status it answers with.
upgradeStatus(r) ==
    IF ~r.wsOk THEN 400 ELSE IF r.method # "GET" THEN 405 ELSE 101

\* part_003:35-37 and :72-77: handleWS up to its select.
ServeHTTP_WS ==
    /\ req.pc = "sent"
    /\ Dispatch(req) = "ws"
    /\ req' = IF upgradeStatus(req) # 101
              THEN Answer(upgradeStatus(req))
              ELSE [req EXCEPT !.pc = "wsenq", !.route = "ws",
                               !.status = 101]
    /\ UNCHANGED << srvVars, accVars, hVars, connVars, appVars, cliVars, post,
                    nReq, wsVars, dialVars >>

\* part_003:78-79: select, case s.acceptCh <- conn.
handleWS_Enqueue ==
    /\ req.pc = "wsenq"
    /\ Len(acceptCh) < AcceptQueueCap
    /\ acceptCh' = Append(acceptCh, WsConn)
    /\ req' = [req EXCEPT !.pc = "done"]
    /\ UNCHANGED << sClosed, sessions, srvPc, rangeCur, rangeStart, accVars,
                    hVars, connVars, appVars, cliVars, post, nReq,
                    wsVars, dialVars >>

\* part_003:80-81: select, case <-s.closed: conn.Close().
handleWS_Closed ==
    /\ req.pc = "wsenq"
    /\ enqClosedReady
    /\ req' = [req EXCEPT !.pc = "done", !.wsClosed = TRUE]
    /\ UNCHANGED << srvVars, accVars, hVars, connVars, appVars, cliVars, post,
                    nReq, wsVars, dialVars >>

\* part_003:43-45 and :85-97: handleSSE registers a new session; its handler
\* runs on while the response stays open.
ServeHTTP_SSE ==
    /\ req.pc = "sent"
    /\ Dispatch(req) = "sse"
    /\ \E i \in Opened : handleSSE_Register(i)
    /\ req' = [req EXCEPT !.pc = "done", !.route = "sse", !.status = 200]
    /\ UNCHANGED nReq

\* An upload handler that does not look at the identifier before the lookup.
missingStatusNone(sid) == 0

\* part_003:133-137: the status when the request has no session identifier.
missingStatus(sid) == IF sid = 0 THEN 400 ELSE 0

\* part_003:149-153: the status when reading the body fails.
readStatus(ok) == IF ok THEN 0 ELSE 500

\* part_003:39-41 and :132-154: handlePost up to the write to the pipe.
ServeHTTP_Post ==
    /\ req.pc = "sent"
    /\ Dispatch(req) = "post"
    /\ req.sid \in sessions => post[req.sid].pc = "none"
    /\ IF missingStatus(req.sid) # 0
       THEN /\ req' = Answer(missingStatus(req.sid))
            /\ UNCHANGED << closedBy, post >>
       ELSE IF lookupStatus(req.sid \in sessions) # 0
       THEN /\ req' = Answer(lookupStatus(req.sid \in sessions))
            /\ UNCHANGED << closedBy, post >>
       ELSE IF req.close
       THEN \/ /\ CloseSwap(req.sid, "post")
               /\ post' = [post EXCEPT ![req.sid] =
                    [NewPost(req.sid, "close", << >>)
                        EXCEPT !.pc = "pclose"]]
               /\ req' = [req EXCEPT !.pc = "post", !.route = "post"]
            \/ /\ connClosed(req.sid)
               /\ req' = Answer(204)
               /\ UNCHANGED << closedBy, post >>
       ELSE IF readStatus(req.readOk) # 0
       THEN /\ req' = Answer(readStatus(req.readOk))
            /\ UNCHANGED << closedBy, post >>
       ELSE /\ post' = [post EXCEPT ![req.sid] =
                    [NewPost(req.sid, "data", ReqBody) EXCEPT !.pc = "pipe"]]
            /\ req' = [req EXCEPT !.pc = "post", !.route = "post"]
            /\ UNCHANGED closedBy
    /\ UNCHANGED << srvVars, accVars, hVars, closeCh, out, late, pRerr, pWerr,
                    appVars, cliVars, nReq, wsVars, dialVars >>

\* part_003:146, :155: the upload handler's answer reaches the client.
Request_PostResp ==
    /\ req.pc = "post"
    /\ post[req.sid].pc = "resp"
    /\ req' = [req EXCEPT !.pc = "done", !.status = post[req.sid].status]
    /\ post' = [post EXCEPT ![req.sid] = NoPost]
    /\ UNCHANGED << srvVars, accVars, hVars, connVars, appVars, cliVars,
                    nReq, wsVars, dialVars >>

\* ------------------------------------ the application on an sseServerConn

\* sseServerConn.Read(b) with len(b) = n (conn_sse.go:124-126): the pipe
\* hands over up to n bytes of the write that waits, which returns once all
\* of its bytes are taken (an empty write waits for one read as well).
sRead(i, n) ==
    /\ i \in accepted
    /\ \/ \* the pipe is closed: readCloseError
          /\ pipeDone(i)
          /\ UNCHANGED << sRecv, post >>
       \/ /\ ~pipeDone(i)
          /\ post[i].pc = "pipe"
          /\ sRecv' = [sRecv EXCEPT ![i] = @ \o Take(post[i].rem, n)]
          /\ post' = [post EXCEPT ![i] =
                [@ EXCEPT !.rem = Drop(post[i].rem, n),
                          !.pc = IF Drop(post[i].rem, n) = << >>
                                 THEN "resp" ELSE "pipe",
                          !.status = IF Drop(post[i].rem, n) = << >>
                                     THEN uploadStatus("nil") ELSE 0]]
    /\ UNCHANGED << srvVars, accVars, hVars, connVars, saPc, swBuf, sWrites,
                    sSent, cliVars, others >>

\* sseServerConn.Write, conn_sse.go:129-131.
sWrite_Call(i, p) ==
    /\ i \in accepted
    /\ saPc[i] = "idle"
    /\ sWrites' = [sWrites EXCEPT ![i] = @ + 1]
    /\ IF connClosed(i)
       THEN UNCHANGED << saPc, swBuf >>
       ELSE /\ saPc' = [saPc EXCEPT ![i] = "write"]
            /\ swBuf' = [swBuf EXCEPT ![i] = p]
    /\ UNCHANGED << srvVars, accVars, hVars, connVars, sSent, sRecv,
                    cliVars, post, others >>

\* conn_sse.go:132-142: the d event, under writeMu.  The write can fail once
\* the client went away or the handler returned.
sWrite_Event(i) ==
    /\ saPc[i] = "write"
    /\ \/ /\ WriteEvent(i, Event("d", EncodeToString(swBuf[i])))
          /\ sSent' = [sSent EXCEPT ![i] = @ \o swBuf[i]]
       \/ /\ ctxDone[i] \/ handlerReturned(i)
          /\ UNCHANGED << out, late, sSent >>
    /\ saPc' = [saPc EXCEPT ![i] = "idle"]
    /\ swBuf' = [swBuf EXCEPT ![i] = << >>]
    /\ UNCHANGED << srvVars, accVars, hVars, closedBy, closeCh, pRerr, pWerr,
                    sWrites, sRecv, cliVars, post, others >>

\* sseServerConn.Close called by the application.
sClose_Call(i) ==
    /\ i \in accepted
    /\ saPc[i] = "idle"
    /\ \/ /\ CloseSwap(i, "app")
          /\ saPc' = [saPc EXCEPT ![i] = "close"]
       \/ /\ connClosed(i)
          /\ UNCHANGED << closedBy, saPc >>
    /\ UNCHANGED << srvVars, accVars, hVars, closeCh, out, late, pRerr, pWerr,
                    swBuf, sWrites, sSent, sRecv, cliVars, post,
                    others >>

sClose_Rest(i) ==
    /\ saPc[i] = "close"
    /\ CloseRest(i)
    /\ saPc' = [saPc EXCEPT ![i] = "idle"]
    /\ UNCHANGED << srvVars, accVars, hVars, closedBy, pWerr, swBuf, sWrites, sSent, sRecv, cliVars, post, others >>

\* ------------------------------------------------------------------ wsConn

\* Close calls on one wsConn.
MaxWsClose == 2
\* Inbound messages on one wsConn.
MaxWsMsgs == 2
\* Write calls on one wsConn.
MaxWsWrites == 2

NilReader == [nil |-> TRUE, rem |-> << >>]

InitWS ==
    /\ wsDone = 0
    /\ wsSock = 0
    /\ wsCloseRes = << >>
    /\ wsIn = << >>
    /\ wsReader = NilReader
    /\ wsRecv = << >>
    /\ wsFed = << >>
    /\ wsOut = << >>
    /\ wsSending = << >>
    /\ wsPanic = FALSE
    /\ wsReadErr = "nil"

\* c.ws.Close() closes the socket's network connection; closing a closed
\* connection is an error.
wsSockClose(n) == IF n = 0 THEN "nil" ELSE "err"

\* wsConn.Close, conn_ws.go:77-82.
wsConn_Close ==
    /\ Len(wsCloseRes) < MaxWsClose
    /\ wsDone' = IF wsDone = 0 THEN 1 ELSE wsDone
    /\ wsSock' = wsSock + 1
    /\ wsCloseRes' = Append(wsCloseRes, wsSockClose(wsSock))
    /\ UNCHANGED << wsIn, wsReader, wsRecv, wsFed, wsOut, wsSending, wsPanic,
                    wsReadErr, sseVars, dialVars >>

\* The peer's next binary message arrives on the socket.
wsPeer_Send(m) ==
    /\ wsSock = 0
    /\ Len(wsFed) < MaxWsMsgs
    /\ wsIn' = Append(wsIn, m)
    /\ wsFed' = Append(wsFed, m)
    /\ UNCHANGED << wsDone, wsSock, wsCloseRes, wsReader, wsRecv, wsOut,
                    wsSending, wsPanic, wsReadErr, sseVars, dialVars >>

\* wsConn.Read(b) with len(b) = n (conn_ws.go:46-67), one pass of its loop
\* per step.  The frame reader gives its last bytes with or without io.EOF;
\* once the socket is closed it may fail before the frame's end.
wsConn_Read(n) ==
    /\ wsReadErr = "nil"
    /\ \/ \* c.ws.NextReader()
          /\ wsReader.nil
          /\ \/ /\ wsIn # << >>
                /\ wsSock = 0
                /\ wsReader' = [nil |-> FALSE, rem |-> Head(wsIn)]
                /\ wsIn' = Tail(wsIn)
                /\ UNCHANGED << wsRecv, wsReadErr >>
             \/ /\ wsSock > 0
                /\ wsReadErr' = "next"
                /\ UNCHANGED << wsIn, wsReader, wsRecv >>
       \/ \* c.reader.Read(b) returns n > 0 or a nil error
          /\ ~wsReader.nil
          /\ wsReader.rem # << >>
          /\ wsRecv' = wsRecv \o Take(wsReader.rem, n)
          /\ \/ wsReader' = [wsReader EXCEPT !.rem = Drop(@, n)]
             \/ /\ Drop(wsReader.rem, n) = << >>
                /\ wsReader' = NilReader
          /\ UNCHANGED << wsIn, wsReadErr >>
       \/ \* c.reader.Read(b) returns 0, io.EOF: on to the next message
          /\ ~wsReader.nil
          /\ wsReader.rem = << >>
          /\ wsReader' = NilReader
          /\ UNCHANGED << wsIn, wsRecv, wsReadErr >>
       \/ \* c.reader.Read(b) returns another error: return n, err
          /\ ~wsReader.nil
          /\ wsReader.rem # << >>
          /\ wsSock > 0
          /\ wsReadErr' = "frame"
          /\ UNCHANGED << wsIn, wsReader, wsRecv >>
    /\ UNCHANGED << wsDone, wsSock, wsCloseRes, wsFed, wsOut, wsSending,
                    wsPanic, sseVars, dialVars >>

\* wsConn.Write, conn_ws.go:69-70: the call enters c.ws.WriteMessage; no
\* lock of the wsConn is taken.
wsConn_Write(p) ==
    /\ Len(wsOut) + Len(wsSending) < MaxWsWrites
    /\ wsSock = 0
    /\ ~wsPanic
    /\ wsSending' = Append(wsSending, p)
    /\ UNCHANGED << wsDone, wsSock, wsCloseRes, wsIn, wsReader, wsRecv,
                    wsFed, wsOut, wsPanic, wsReadErr, sseVars, dialVars >>

\* The sequence s without its k-th element.
Without(s, k) == SubSeq(s, 1, k - 1) \o SubSeq(s, k + 1, Len(s))

\* conn_ws.go:70-74: WriteMessage of the k-th call inside returns, its
\* buffer sent as one binary message.  With another write in progress the
\* socket detects a concurrent write and panics, or does not detect it.
wsConn_WriteEnd(k) ==
    /\ k \in 1..Len(wsSending)
    /\ ~wsPanic
    /\ \/ /\ wsOut' = Append(wsOut, wsSending[k])
          /\ wsSending' = Without(wsSending, k)
          /\ UNCHANGED wsPanic
       \/ /\ Len(wsSending) > 1
          /\ wsPanic' = TRUE
          /\ UNCHANGED << wsOut, wsSending >>
    /\ UNCHANGED << wsDone, wsSock, wsCloseRes, wsIn, wsReader, wsRecv,
                    wsFed, wsReadErr, sseVars, dialVars >>

\* ------------------------------------------------------------ Dial, dial

\* Longest baseURL handed to Dial.
MaxUrl == 3

\* baseURL: a separator and another character stand for all.
UrlChars == {"/", "a"}

RECURSIVE UrlsOfLen(_)
UrlsOfLen(n) ==
    IF n = 0 THEN { << >> }
    ELSE { Append(u, c) : u \in UrlsOfLen(n - 1), c \in UrlChars }

Urls == UNION { UrlsOfLen(n) : n \in 0..MaxUrl }

RECURSIVE TrimRight(_)
\* strings.TrimRight(baseURL, "/") (webdial_test.go:315) and
\* baseURL.replace(/\/+$/, "") (webdial_test.go:76).
TrimRight(u) ==
    IF Len(u) > 0 /\ u[Len(u)] = "/" THEN TrimRight(SubSeq(u, 1, Len(u) - 1))
    ELSE u

InitDialIdle ==
    /\ dPc = "init"
    /\ dLang = "go"
    /\ dUrl = << >>
    /\ dOpt = ""
    /\ dWsOk = FALSE
    /\ dSseOk = FALSE
    /\ dBase = << >>
    /\ dTried = << >>
    /\ dRes = "none"

\* The Go Dial takes no option; the JavaScript dial takes opts.transport.
InitDial ==
    /\ dPc = "init"
    /\ dLang \in {"go", "js"}
    /\ dUrl \in Urls
    /\ dOpt \in IF dLang = "go" THEN {""} ELSE {"", "ws", "sse"}
    /\ dWsOk \in BOOLEAN
    /\ dSseOk \in BOOLEAN
    /\ dBase = << >>
    /\ dTried = << >>
    /\ dRes = "none"

\* The transport tried first (webdial_test.go:78-81, :316).
firstTransport(opt) == IF opt = "sse" THEN "sse" ELSE "ws"

\* fallsBack for a dial that probes whatever the option says.
fallsBackAlways(opt) == TRUE

\* Whether a failed message-socket attempt is followed by a push-stream
\* attempt (webdial_test.go:79-84, :317-320).
fallsBack(opt) == opt # "ws"

\* webdial_test.go:315 and :76-79.
Dial_Start ==
    /\ dPc = "init"
    /\ dBase' = TrimRight(dUrl)
    /\ dPc' = firstTransport(dOpt)
    /\ UNCHANGED << dLang, dUrl, dOpt, dWsOk, dSseOk, dTried, dRes, sseVars,
                    wsVars >>

\* dialWS(baseURL) and what follows it.
Dial_WS ==
    /\ dPc = "ws"
    /\ dTried' = Append(dTried, [transport |-> "ws", base |-> dBase])
    /\ IF dWsOk
       THEN dRes' = "ws" /\ dPc' = "done"
       ELSE IF fallsBack(dOpt)
       THEN dPc' = "sse" /\ UNCHANGED dRes
       ELSE dRes' = "error" /\ dPc' = "done"
    /\ UNCHANGED << dLang, dUrl, dOpt, dWsOk, dSseOk, dBase, sseVars,
                    wsVars >>

\* dialSSE(baseURL): its result is the call's result.
Dial_SSE ==
    /\ dPc = "sse"
    /\ dTried' = Append(dTried, [transport |-> "sse", base |-> dBase])
    /\ dRes' = IF dSseOk THEN "sse" ELSE "error"
    /\ dPc' = "done"
    /\ UNCHANGED << dLang, dUrl, dOpt, dWsOk, dSseOk, dBase, sseVars,
                    wsVars >>

\* ------------------------------------------------------ the specifications

\* Buffers handed to Write: empty, and 1, 2 and 4 bytes (every base64
\* remainder), with the bytes 0x00 and 0xFF among them.
Payloads == { << >>, << 255 >>, << 0, 10 >>, << 65, 0, 255, 128 >> }

BufSizes == 0..MaxBuf

\* Opening a session: the handler up to its loop and the client's dialSSE.
Open(i) ==
    \/ handleSSE_Store(i)
    \/ handleSSE_Sid(i)
    \/ handleSSE_Enqueue(i)
    \/ dialSSE_First(i)

\* The steps that carry a Write to the other end.
Transfer(i) ==
    \/ cWrite_Post(i)
    \/ cWrite_Resp(i)
    \/ handlePost_Load(i)
    \/ sWrite_Event(i)

\* Every way a session ends.
Closing(i) ==
    \/ handleSSE_EnqClosed(i)
    \/ handleSSE_EnqCloseRest(i)
    \/ handleSSE_LoopExit(i)
    \/ handleSSE_Defer(i)
    \/ ctxCancel(i)
    \/ cClose_Call(i)
    \/ cClose_Post(i)
    \/ cClose_Resp(i)
    \/ handlePost_CloseRest(i)
    \/ handlePost_PipeClosed(i)
    \/ sClose_Call(i)
    \/ sClose_Rest(i)

Lifecycle(i) == Open(i) \/ Transfer(i) \/ Closing(i)

Server ==
    \/ ServerClose_Begin
    \/ ServerClose_CloseRest
    \/ ServerClose_Delete
    \/ ServerClose_End
    \/ Accept

\* The server with its sessions: every interleaving of the handlers, of
\* Server.Close and Accept, and of both ends' Read, Write and Close, each
\* Write carrying one byte.
Init == InitSSE /\ InitWS /\ InitDialIdle

Next ==
    \/ Server
    \/ \E i \in Opened :
        \/ Lifecycle(i)
        \/ ServerClose_Visit(i)
        \/ handleSSE_Tick(i)
        \/ cWrites[i] < MaxWrites /\ cWrite_Call(i, << 255 >>)
        \/ sWrites[i] < MaxWrites /\ sWrite_Call(i, << 255 >>)
        \/ cRead(i, 1)
        \/ sRead(i, 1)

Spec == Init /\ [][Next]_vars

\* Write calls per direction in the data specification.
DataWrites == 2

\* An open session carrying data both ways: every payload, every Read
\* buffer size, and every interleaving of the Writes with the Reads.

NextData ==
    \/ Accept
    \/ \E i \in Opened :
        \/ Open(i)
        \/ Transfer(i)
        \/ \E p \in Payloads :
              \/ cWrites[i] < DataWrites /\ cWrite_Call(i, p)
              \/ sWrites[i] < DataWrites /\ sWrite_Call(i, p)
        \/ \E n \in BufSizes : cRead(i, n) \/ sRead(i, n)

SpecData == Init /\ [][NextData]_vars

\* Shutdown of the server with an idle session whose client keeps reading.
\* Once called, Server.Close runs on; the session's handler and the client's
\* Read are scheduled; nothing makes the application call Close or Accept.
NextShutdown ==
    \/ Server
    \/ \E i \in Opened :
        \/ Open(i)
        \/ ServerClose_Visit(i)
        \/ handleSSE_EnqClosed(i)
        \/ handleSSE_EnqCloseRest(i)
        \/ handleSSE_LoopExit(i)
        \/ handleSSE_Defer(i)
        \/ handleSSE_Tick(i)
        \/ cRead(i, 1)

\* The steps of Server.Close after its first.
ServerClose_Run ==
    \/ \E k \in Slots : ServerClose_Visit(k)
    \/ ServerClose_CloseRest
    \/ ServerClose_Delete
    \/ ServerClose_End

\* The steps of the handler of session i once the request is there.
handleSSE_Run(i) ==
    \/ handleSSE_Sid(i)
    \/ handleSSE_Enqueue(i)
    \/ handleSSE_EnqClosed(i)
    \/ handleSSE_EnqCloseRest(i)
    \/ handleSSE_LoopExit(i)
    \/ handleSSE_Defer(i)

SpecShutdown ==
    /\ Init
    /\ [][NextShutdown]_vars
    /\ WF_vars(ServerClose_Run)
    /\ \A i \in Opened :
        /\ WF_vars(handleSSE_Run(i))
        /\ WF_vars(dialSSE_First(i))
        /\ WF_vars(cRead(i, 1))

\* Requests of every shape against a server with a session: the routing of
\* Server.ServeHTTP and the answers of the upload handler.
NextHttp ==
    \/ Accept
    \/ \E r \in Requests : nReq < MaxReq /\ Request_Send(r)
    \/ ServeHTTP_Bad
    \/ ServeHTTP_WS
    \/ ServeHTTP_SSE
    \/ ServeHTTP_Post
    \/ handleWS_Enqueue
    \/ Request_PostResp
    \/ \E i \in Opened :
        \/ handleSSE_Sid(i)
        \/ handleSSE_Enqueue(i)
        \/ handleSSE_LoopExit(i)
        \/ handleSSE_Defer(i)
        \/ handlePost_CloseRest(i)
        \/ handlePost_PipeClosed(i)
        \/ sRead(i, 1)
        \/ sClose_Call(i)
        \/ sClose_Rest(i)

SpecHttp == Init /\ [][NextHttp]_vars

\* Write calls per direction and session in the concurrent-dial
\* specification.
MultiWrites == 1

\* What the two ends of session i write there: bytes that name the writer.
ClientBytes(i) == << 100 + i >>
ServerBytes(i) == << 200 + i >>

\* Concurrent dials: every session is opened, accepted and used at the same
\* time as the others; each client uploads bytes of its own with the
\* identifier it was sent, and the application writes bytes of its own on
\* each connection Accept returned.
NextMulti ==
    \/ Accept
    \/ \E i \in Slots :
        \/ Open(i)
        \/ Transfer(i)
        \/ cWrites[i] < MultiWrites /\ cWrite_Call(i, ClientBytes(i))
        \/ sWrites[i] < MultiWrites /\ sWrite_Call(i, ServerBytes(i))
        \/ cRead(i, 1)
        \/ sRead(i, 1)

SpecMulti == Init /\ [][NextMulti]_vars

\* Upgrade requests in the accept-queue specification: one to fill the
\* queue and one to wait at it.
QueueReqs == 2

\* Message-socket connections queued and not yet accepted when the
\* accept-queue specification begins: the queue has one place left.
Backlog == [k \in 1..(AcceptQueueCap - 1) |-> WsConn]

\* A well-formed upgrade handshake (webdial_test.go:316-321 dials one).
WsDial == [NoReq EXCEPT !.pc = "sent", !.upgrade = TRUE, !.wsOk = TRUE]

\* The steps of handleWS once the request is there.
handleWS_Run ==
    \/ ServeHTTP_WS
    \/ handleWS_Enqueue
    \/ handleWS_Closed

\* The accept queue under load: with all places of the queue but one taken,
\* message-socket dials and a push-stream session arrive at an application
\* that has stopped calling Accept, so that the queue only fills, and that calls Server.Close when it likes, or never.
\* Handlers and a Server.Close that was called run on; nothing makes the
\* application call Close, or a request context end.
NextQueue ==
    \/ ServerClose_Begin
    \/ ServerClose_CloseRest
    \/ ServerClose_Delete
    \/ ServerClose_End
    \/ nReq < QueueReqs /\ Request_Send(WsDial)
    \/ handleWS_Run
    \/ \E i \in Opened :
        \/ handleSSE_Store(i)
        \/ handleSSE_Run(i)
        \/ ctxCancel(i)
        \/ ServerClose_Visit(i)

InitQueue == InitQueued(Backlog) /\ InitWS /\ InitDialIdle

SpecQueue ==
    /\ InitQueue
    /\ [][NextQueue]_vars
    /\ WF_vars(ServerClose_Run)
    /\ WF_vars(handleWS_Run)
    /\ \A i \in Opened : WF_vars(handleSSE_Run(i))

\* The steps of the client's Write and Close once called, and of the upload
\* handler serving them.
cUpload_Run(i) ==
    \/ cWrite_Post(i)
    \/ cWrite_Resp(i)
    \/ cClose_Post(i)
    \/ cClose_Resp(i)
    \/ handlePost_Load(i)
    \/ handlePost_CloseRest(i)
    \/ handlePost_PipeClosed(i)

\* A client that writes and closes against an application that reads when it
\* likes, or never: the client's calls, the upload handler and the session's
\* handler run on; nothing makes the application call Accept or Read.
NextStall ==
    \/ Accept
    \/ \E i \in Opened :
        \/ Open(i)
        \/ cWrites[i] < MaxWrites /\ cWrite_Call(i, << 255 >>)
        \/ cClose_Call(i)
        \/ cUpload_Run(i)
        \/ handleSSE_LoopExit(i)
        \/ handleSSE_Defer(i)
        \/ sRead(i, 1)

SpecStall ==
    /\ Init
    /\ [][NextStall]_vars
    /\ \A i \in Opened :
        /\ WF_vars(cUpload_Run(i))
        /\ WF_vars(handleSSE_Run(i))
        /\ WF_vars(dialSSE_First(i))

\* One wsConn: Read, Write and Close against the socket's inbound messages.
WsPayloads == { << >>, << 7 >>, << 8, 9 >> }

InitWs == InitSSE /\ InitWS /\ InitDialIdle

NextWs ==
    \/ wsConn_Close
    \/ \E m \in WsPayloads : wsPeer_Send(m) \/ wsConn_Write(m)
    \/ \E k \in 1..MaxWsWrites : wsConn_WriteEnd(k)
    \/ \E n \in BufSizes : wsConn_Read(n)

SpecWs == InitWs /\ [][NextWs]_vars

\* Dial and dial on every base location, option and outcome of the two
\* handshakes.
InitD == InitSSE /\ InitWS /\ InitDial

NextD == Dial_Start \/ Dial_WS \/ Dial_SSE

SpecDial == InitD /\ [][NextD]_vars

\* ------------------------------------------------------------------ claims

\* The payload of the client's Write whose upload the server is handling.
inFlight(i) == IF cwPc[i] = "post" THEN cwBuf[i] ELSE << >>

\* C1: in each direction the bytes the receiver's Reads returned are a
\* prefix of the payloads of the sender's Writes in call order (the Write
\* whose upload is being read included); and nothing is lost: once the
\* client's Write has returned on an open pipe the server has read all of it,
\* and once the client has consumed every event it has read all that the
\* server wrote.
C1_StreamIntegrity ==
    \A i \in Slots :
        /\ IsPrefix(sRecv[i], cSent[i] \o inFlight(i))
        /\ IsPrefix(cRecv[i], sSent[i])
        /\ (~pipeDone(i) /\ cwPc[i] = "idle") => sRecv[i] = cSent[i]
        /\ (cPc[i] = "conn" /\ cPos[i] = Len(out[i]) /\ readBuf[i] = << >>
              /\ late[i] = << >>)
           => cRecv[i] = sSent[i]

\* Both directions have delivered two Writes, of four bytes and of more.
C1_Witness ==
    \E i \in Slots :
        /\ Len(sRecv[i]) > 4 /\ sRecv[i] = cSent[i]
        /\ Len(cRecv[i]) > 4 /\ cRecv[i] = sSent[i]
        /\ cWrites[i] = 2 /\ sWrites[i] = 2

\* C2: after a Close the peer's Read reports io.EOF and no other error: the
\* server-side Read of a connection closed by a close=1 upload ends with
\* io.EOF, and the client's Read never returns another error.
C2_PeerReadEOF ==
    \A i \in Slots :
        /\ (i \in accepted /\ closedBy[i] = "post" /\ pipeDone(i))
           => readCloseError(i) = "EOF"
        /\ ~crErr[i]

\* The close events written on the stream of session i.
closeEvents(i) ==
    Cardinality({ k \in 1..Len(out[i]) : out[i][k].type = "close" })
    + Cardinality({ k \in 1..Len(late[i]) : late[i][k].type = "close" })

\* C3: Close is idempotent on every connection variant: every call returns
\* nil, the socket is closed once, and the close event, the close=1 upload
\* and the closing of closeCh happen at most once.
C3_CloseIdempotent ==
    /\ \A k \in 1..Len(wsCloseRes) : wsCloseRes[k] = "nil"
    /\ wsSock <= 1
    /\ wsDone <= 1
    /\ \A i \in Slots :
        closeCh[i] <= 1 /\ closePosts[i] <= 1 /\ closeEvents(i) <= 1

\* C4: every identifier in the registry refers to a connection that is not
\* closed and whose pipe is not torn down, and the session is out of the
\* registry when the 204 to its close=1 upload is sent.
C4_RegistryOpen ==
    /\ \A i \in sessions : ~connClosed(i) /\ ~pipeDone(i)
    /\ \A i \in Slots :
        (post[i].pc = "resp" /\ post[i].kind = "close"
            /\ post[i].status = 204)
        => i \notin sessions

\* C5: an upload sent after a Close of the connection returned is answered
\* with a status other than 204.
C5_NoSuccessAfterClose ==
    \A i \in Slots :
        (post[i].pc = "resp" /\ post[i].kind = "data" /\ post[i].late)
        => post[i].status # 204

\* C6: an upload is answered with 204 only when the pipe took its whole
\* body.
C6_AckOnlyAfterAppend ==
    \A i \in Slots :
        (post[i].pc = "resp" /\ post[i].kind = "data"
            /\ post[i].status = 204)
        => post[i].perr = "nil" /\ post[i].rem = << >>

\* C7: once Server.Close was called no Accept returns a connection.
C7_AcceptAfterClose == [][sClosed => accepted' = accepted]_vars

\* C8: a session that was registered when Server.Close was called has, once
\* Close and the session's handler have returned, a closed connection (flag
\* set, read pipe closed) and no registry entry.
C8_ForceClosed ==
    \A i \in rangeStart :
        (srvPc = "done" /\ hPc[i] = "done")
        => connClosed(i) /\ pRerr[i] /\ i \notin sessions

\* C9: the first event written on a session's stream is its sid event.
C9_SidFirst ==
    \A i \in Slots : out[i] # << >> => out[i][1].type = "sid"

\* base is u without its trailing separators.
stripped(u, base) ==
    /\ IsPrefix(base, u)
    /\ base = << >> \/ base[Len(base)] # "/"
    /\ \A k \in (Len(base) + 1)..Len(u) : u[k] = "/"

\* The outcome of the handshake of one transport.
handshakeOk(t) == IF t = "ws" THEN dWsOk ELSE dSseOk

\* C10: every attempt goes to the base location without its trailing
\* separators; without an option the message socket is tried first and is
\* the result when its handshake succeeds, and the push stream is tried
\* only after it failed; with an option that one transport is the only
\* attempt and decides the result.
C10_DialPolicy ==
    /\ \A k \in 1..Len(dTried) : stripped(dUrl, dTried[k].base)
    /\ \A k \in 1..Len(dTried) :
        (dOpt = "" /\ dTried[k].transport = "sse")
        => k = 2 /\ dTried[1].transport = "ws" /\ ~dWsOk
    /\ dPc = "done" =>
        IF dOpt = ""
        THEN /\ dTried[1].transport = "ws"
             /\ dWsOk => dRes = "ws" /\ Len(dTried) = 1
             /\ ~dWsOk =>
                  /\ Len(dTried) = 2
                  /\ dRes = IF dSseOk THEN "sse" ELSE "error"
        ELSE /\ Len(dTried) = 1
             /\ dTried[1].transport = dOpt
             /\ dRes = IF handshakeOk(dOpt) THEN dOpt ELSE "error"

\* A dial without option fell back to the push stream on a base location
\* that had trailing separators.
C10_Witness ==
    /\ dPc = "done" /\ dOpt = "" /\ ~dWsOk /\ dRes = "sse"
    /\ Len(dTried) = 2
    /\ Len(dUrl) > Len(dBase) /\ Len(dBase) > 0

\* C13: sequential Writes of one caller reach the session's pipe in issue
\* order: on an open pipe the bytes read so far and the rest of the upload
\* being read are exactly the earlier Writes followed by the current one, and
\* no upload starts before the one before it is read to its end.
C13_UploadOrder ==
    \A i \in Slots :
        ~pipeDone(i) =>
            /\ post[i].pc = "pipe"
               => sRecv[i] \o post[i].rem = cSent[i] \o cwBuf[i]
            /\ (post[i].pc = "resp" /\ post[i].kind = "data"
                  /\ post[i].status = 204)
               => sRecv[i] = cSent[i] \o cwBuf[i]
            /\ (post[i].pc = "load" \/ cwPc[i] = "lock")
               => sRecv[i] = cSent[i]

\* The second upload is partly read, after a first one that was not empty.
C13_Witness ==
    \E i \in Slots :
        /\ cWrites[i] = 2 /\ cSent[i] # << >>
        /\ post[i].pc = "pipe"
        /\ post[i].rem # << >> /\ Len(post[i].rem) < Len(cwBuf[i])

\* C17: a heartbeat tick either writes one ping event with empty data and
\* the handler goes on, or the handler ends with the connection marked
\* closed.
C17_HeartbeatFatal ==
    [][\A i \in Slots :
        pings'[i] # pings[i] =>
            IF hPc'[i] = "loop"
            THEN out'[i] = Append(out[i], Event("ping", << >>))
            ELSE connClosed(i)']_vars

\* C19: Writes on a message-socket connection are serialized: at most one
\* call is inside the socket's message send, and no send finds another one
\* in progress.
C19_WriteSerialized == Len(wsSending) <= 1 /\ ~wsPanic

RECURSIVE Flatten(_)
\* The payloads of a sequence of messages, one after the other.
Flatten(ms) == IF ms = << >> THEN << >> ELSE Head(ms) \o Flatten(Tail(ms))

\* The bytes Read has returned, those left in the current frame and the
\* messages not yet fetched are the inbound messages in arrival order.
wsInOrder ==
    wsRecv \o wsReader.rem \o Flatten(wsIn) = Flatten(wsFed)

\* C20 as stated: the bytes are in order and Read fails only when fetching
\* the next message fails.
C20_ReadFailsOnlyOnFetch == wsInOrder /\ wsReadErr \in {"nil", "next"}

\* C20, amended: the bytes are in order, an exhausted frame is never an
\* error, and Read fails only after the socket was closed, when fetching the
\* next message fails or when reading on in the current frame fails.
C20_ReadFrames ==
    /\ wsInOrder
    /\ wsReadErr # "nil" => wsSock > 0
    /\ wsReadErr = "frame" => ~wsReader.nil /\ wsReader.rem # << >>
    /\ wsReadErr = "next" => wsReader.nil

\* An empty message was dropped and the message after it read to its end.
C20_Witness ==
    /\ Len(wsFed) = 2 /\ wsFed[1] = << >> /\ Len(wsFed[2]) = 2
    /\ wsRecv = wsFed[2]
    /\ wsReader.nil /\ wsReadErr = "nil"

\* C15: once the server is shut down, the Read of a connected client
\* eventually returns io.EOF and no Read has returned another error.
C15_ShutdownEOF ==
    \A i \in Slots :
        (sClosed /\ cPc[i] = "conn") ~> (cReadEOF(i) /\ ~crErr[i])

\* Shutdown is over and the client's Read returns io.EOF although no close
\* event was written: the handler saw the closed signal first.
C15_Witness ==
    \E i \in Slots :
        /\ srvPc = "done" /\ closedBy[i] = "none"
        /\ cReadEOF(i) /\ ~cClosed[i]

\* The step in which Server.ServeHTTP takes up the request in flight.
served == req.pc = "sent" /\ req'.pc # "sent"

C12_UploadStatusOnly ==
    (req.pc = "done" /\ req.route = "post") => req.status \in {204, 400, 404}

\* C12, amended: the upload handler answers 400 exactly when the identifier
\* is missing, 404 exactly when it is not registered, 500 exactly when the
\* session is registered, close=1 is not set and the body cannot be read, and
\* 204 otherwise; close=1 closes the session and appends nothing; 400, 404
\* and 500 change neither the registry nor a session.
C12_UploadStatus ==
    [][/\ (served /\ ~req.upgrade /\ req.method = "POST") =>
            /\ req'.status = 400 <=> req.sid = 0
            /\ req'.status = 404 <=> (req.sid # 0 /\ req.sid \notin sessions)
            /\ req'.status = 500 <=>
                 (req.sid \in sessions /\ ~req.close /\ ~req.readOk)
            /\ req'.status \in {0, 204, 400, 404, 500}
            /\ req'.status = 0 => req'.pc = "post"
            /\ req'.status \in {400, 404, 500} =>
                 UNCHANGED << sessions, post, closedBy, pRerr, out, sRecv >>
            /\ (req.sid \in sessions /\ req.close) =>
                 /\ connClosed(req.sid)'
                 /\ post'[req.sid].rem = << >>
                 /\ sRecv' = sRecv
       /\ (req.pc = "post" /\ req'.pc = "done") => req'.status = 204]_vars

\* An upload with close=1 closed a registered session and was answered 204.
C12_Witness ==
    /\ req.pc = "done" /\ req.route = "post" /\ req.close
    /\ req.status = 204
    /\ closedBy[req.sid] = "post" /\ sRecv[req.sid] = << >>

\* C16 as stated: once the request context of a session-open handler is
\* cancelled, the session's identifier eventually leaves the registry.
C16_CancelEnds ==
    \A i \in Slots : ctxDone[i] ~> (i \notin sessions)

\* The accept queue holds as many connections as it can.
queueFull == Len(acceptCh) = AcceptQueueCap

\* C18: once Server.Close is called, a handler waiting at a full accept queue
\* stops waiting and returns, having closed the connection it could not
\* enqueue, and Server.Close comes to its end whatever the queue holds.
C18_ShutdownUnblocks ==
    /\ \A i \in Slots :
          (sClosed /\ queueFull /\ hPc[i] = "enq")
             ~> (hPc[i] = "done" /\ connClosed(i))
    /\ (sClosed /\ queueFull /\ req.pc = "wsenq")
          ~> (req.pc = "done" /\ req.wsClosed)
    /\ sClosed ~> (srvPc = "done")

\* Both handlers have returned after a shutdown that found them waiting at a
\* full queue: each closed its connection, and the queue is still full.
C18_Witness ==
    /\ queueFull
    /\ srvPc = "done"
    /\ req.pc = "done" /\ req.wsClosed
    /\ \E i \in Slots : hPc[i] = "done" /\ closedBy[i] = "hdl"
    /\ \A k \in 1..Len(acceptCh) : acceptCh[k] = WsConn

\* The bytes of the d events of a stream, decoded, in order.
RECURSIVE streamBytes(_)
streamBytes(evs) ==
    IF evs = << >> THEN << >>
    ELSE (IF Head(evs).type = "d" /\ B64Valid(Head(evs).data)
          THEN DecodeString(Head(evs).data) ELSE << >>)
         \o streamBytes(Tail(evs))

\* Every element of s is in the set S.
allIn(s, S) == \A k \in 1..Len(s) : s[k] \in S

\* C14: concurrent dials get distinct server-side connections, each handed
\* out by Accept once, and there is no cross-talk: the Read side of session
\* i receives only what was uploaded with identifier i, in order, and what is
\* written on connection i is emitted on the stream of session i only, where
\* the client of that session and no other reads it.
C14_NoCrossTalk ==
    /\ \A k, l \in 1..Len(acceptCh) : acceptCh[k] = acceptCh[l] => k = l
    /\ \A k \in 1..Len(acceptCh) :
          acceptCh[k] \in Slots /\ acceptCh[k] \notin accepted
    /\ (\A i \in Slots : cPc[i] = "conn" /\ hPc[i] = "loop")
          => Cardinality(accepted \cup { acceptCh[k] : k \in 1..Len(acceptCh) })
                = MaxSess
    /\ \A i, j \in Slots :
          (i # j /\ cPc[i] = "conn" /\ cPc[j] = "conn")
             => sessionID(i) # sessionID(j)
    /\ \A i \in Slots :
          /\ IsPrefix(sRecv[i], cSent[i] \o inFlight(i))
          /\ allIn(sRecv[i], {100 + i})
          /\ streamBytes(out[i]) = sSent[i]
          /\ allIn(streamBytes(out[i]), {200 + i})
          /\ IsPrefix(cRecv[i], sSent[i])
          /\ allIn(cRecv[i], {200 + i})

\* Every dial succeeded, every connection was accepted, and every session
\* has carried its bytes both ways.
C14_Witness ==
    /\ accepted = Slots
    /\ \A i \in Slots :
          /\ cPc[i] = "conn"
          /\ sRecv[i] = ClientBytes(i) /\ cSent[i] = ClientBytes(i)
          /\ cRecv[i] = ServerBytes(i)

\* Everything written to the response writer of session i, in order.
stream(i) == out[i] \o late[i]

\* The stream of session i carries a close event.
closeEmitted(i) == \E k \in 1..Len(out[i]) : out[i][k].type = "close"

\* C21: when the server ends a session on its own, because the request
\* context ended or because of Server.Close, the stream carries a close
\* event by the time the handler returns and the stream ends.
C21_CloseEventBeforeEnd ==
    \A i \in Slots :
        (handlerReturned(i) /\ (ctxDone[i] \/ sClosed)) => closeEmitted(i)

\* C23: the close event is terminal: no d event and no ping event is
\* written to the response writer after it.
C23_CloseTerminal ==
    \A i \in Slots :
        \A k, l \in 1..Len(stream(i)) :
            (k < l /\ stream(i)[k].type = "close")
               => stream(i)[l].type \notin {"d", "ping"}

\* C24: a Write called on the accepted connection after the session-open
\* handler has returned fails at its closed check, before it gets to the
\* response writer.
C24_NoWriteAfterReturn ==
    [][\A i \in Slots :
          (handlerReturned(i) /\ sWrites'[i] # sWrites[i])
             => saPc'[i] = "idle"]_vars

\* C22: with the accept queue full and the server not closed, the handler of
\* a new connection does not stay at its enqueue: it gives the connection up.
C22_FullQueueDrops ==
    /\ \A i \in Slots :
          (queueFull /\ ~sClosed /\ hPc[i] = "enq") ~> (hPc[i] # "enq")
    /\ (queueFull /\ ~sClosed /\ req.pc = "wsenq") ~> (req.pc # "wsenq")

\* C25: a Close called on the client connection comes to its end.
C25_CloseTerminates ==
    \A i \in Slots : (ccPc[i] = "lock") ~> (ccPc[i] = "done")

\* A queued connection that is still open: nothing closes a message-socket
\* connection before Accept has handed it out.
queuedOpen(c) == IF c = WsConn THEN TRUE ELSE ~connClosed(c)

\* C26: once Server.Close has returned, every connection still in the accept
\* queue is closed, and a push-stream connection there is unregistered.
C26_QueueClosed ==
    srvPc = "done" =>
        \A k \in 1..Len(acceptCh) :
            /\ ~queuedOpen(acceptCh[k])
            /\ acceptCh[k] \notin sessions

====
